---- MODULE Spec2Model ----
(***************************************************************************)
(* space-saver: duplicate finder and copy-on-write cloner.                 *)
(*                                                                         *)
(* The model follows the current command file (the one that defines        *)
(* find, clone-duplicates, clone-file and same-file) and pkg/filesize.     *)
(*                                                                         *)
(* Four specifications share the variables:                                *)
(*   Spec          find / clone-duplicates: walk, group, plan, clone       *)
(*   SpecClone     Spec and the clone-file command: all uses of cloneFile  *)
(*   SpecSameFile  the same-file command                                   *)
(*   SpecFormat    filesize.Format as a pure function                      *)
(***************************************************************************)
EXTENDS Integers, Sequences, FiniteSets, TLC

VARIABLES
    cmd,        \* the sub-command that runs
    real,       \* c.Bool("real")
    minSizeBytes,
    tree,       \* the file system when the command started (never changes)
    fs,         \* the file system now: path -> stat of what the path names
    pc,         \* "walk" | "plan" | "done" | "failed" | "start"
    walkIdx,    \* next entry filepath.Walk hands to the callback (0 = root)
    hashes,     \* checksum -> sequence of fullFileInfo
    todo,       \* keys of hashes the range loop has not yet produced
    cur,        \* key of the fileset the inner loop is in, or NoKey
    idx,        \* position (1-based) of the next target in hashes[cur]
    total,      \* totalPossibleSavingsBytes
    trace,      \* what the run did: system calls and printed lines, in order
    err,        \* the error the command returned, or NoErr
    nextId,     \* identity the next created file receives
    args,       \* positional arguments of clone-file / same-file
    fmtIn,      \* SpecFormat: the argument of Format
    fmtOut      \* SpecFormat: its result, or <<>> before the call

vars == <<cmd, real, minSizeBytes, tree, fs, pc, walkIdx, hashes, todo, cur,
          idx, total, trace, err, nextId, args, fmtIn, fmtOut>>

----------------------------------------------------------------------------
(* Bounds of the model. *)

NumPaths == 3       \* entries below the root, in the walk's (lexical) order
ModTimes == {1, 2}  \* modification times: ties and strict orderings both occur

Paths == 1..NumPaths
Root == 0
Contents == {"a", "b"}          \* distinct byte streams (so distinct sha256)
SizeOf(c) == IF c = "a" THEN 1 ELSE 2
MinSizes == {0, 2}              \* --min-size: no filter; SizeOf("b") = SizeOf("a") + 1
NoErr == "nil"
NoKey == "none"

----------------------------------------------------------------------------
(* File metadata. os.Lstat / os.Stat return an *os.fileStat; `dyn` is the   *)
(* dynamic type of the value behind the fs.FileInfo interface.             *)

NoFile == [dyn |-> "none", id |-> 0, kind |-> "none", mtime |-> 0,
           content |-> "none", size |-> 0]

RegularStats ==
    { [dyn |-> "*os.fileStat", id |-> i, kind |-> "regular", mtime |-> t,
       content |-> c, size |-> SizeOf(c)] :
         i \in Paths, t \in ModTimes, c \in Contents }

(* What the entries below the root can be. The root itself is the         *)
(* directory RootInfo describes.                                           *)
Stats == RegularStats

RootInfo == [dyn |-> "*os.fileStat", id |-> 0, kind |-> "dir", mtime |-> 1,
             content |-> "none", size |-> 0]

MaxIdBefore(t, p) ==
    LET s == { t[q].id : q \in { r \in Paths : r < p } }
    IN  IF s = {} THEN 0 ELSE CHOOSE m \in s : \A n \in s : n <= m

(* Directory trees: every path names an inode; paths that share an inode   *)
(* (hard links) share all of its metadata.                                 *)
(* Identities are numbered in order of first appearance.                   *)
Trees ==
    { t \in [Paths -> Stats] :
        /\ \A p \in Paths : t[p].id <= MaxIdBefore(t, p) + 1
        /\ \A p, q \in Paths : t[p].id = t[q].id => t[p] = t[q] }

fullFileInfo(path, info) ==
    [dyn |-> "main.fullFileInfo", Path |-> path, FileInfo |-> info]

Event(op, src, dst, res, n) ==
    [op |-> op, src |-> src, dst |-> dst, res |-> res, n |-> n, text |-> <<>>]

----------------------------------------------------------------------------
(* Identity Verifier. *)

(* Variant: compares what the files hold instead of which file they are. *)
SameFileByContent(fi1, fi2) ==
    IF fi1.dyn = "*os.fileStat" /\ fi2.dyn = "*os.fileStat"
    THEN fi1.content = fi2.content
    ELSE FALSE

(* os.SameFile(fi1, fi2) asserts both arguments to *os.fileStat and then   *)
(* compares device and inode; it "only applies to results returned by this *)
(* package's Stat" and "returns false in other cases". same-file hands it  *)
(* two results of os.Stat. findDuplicateFiles hands it the walk's info and *)
(* `existing`, a fullFileInfo: a struct that embeds the FileInfo, so its   *)
(* dynamic type is main.fullFileInfo and the assertion fails.              *)
SameFile(fi1, fi2) ==
    IF fi1.dyn = "*os.fileStat" /\ fi2.dyn = "*os.fileStat"
    THEN fi1.id = fi2.id
    ELSE FALSE

(* Methods fullFileInfo gets from the embedded fs.FileInfo. *)
ModTime(ffi) == ffi.FileInfo.mtime
Size(ffi) == ffi.FileInfo.size

(* The identity of the file a group member was recorded for. *)
Identity(ffi) == ffi.FileInfo.id

----------------------------------------------------------------------------
(* Duplicate Grouper. *)

(* The comparator findDuplicateFiles hands to insertSorted. *)
sorter(a, b) ==
    IF ModTime(a) < ModTime(b) THEN -1
    ELSE IF ModTime(a) = ModTime(b) THEN 0 ELSE 1

(* slices.BinarySearchFunc: i, j are 0-based bounds; returns the position  *)
(* the loop ends on.                                                       *)
RECURSIVE BinarySearchLoop(_, _, _, _)
BinarySearchLoop(x, target, i, j) ==
    IF i < j
    THEN LET h == (i + j) \div 2
         IN  IF sorter(x[h + 1], target) < 0
             THEN BinarySearchLoop(x, target, h + 1, j)
             ELSE BinarySearchLoop(x, target, i, h)
    ELSE i

BinarySearchFunc(x, target) == BinarySearchLoop(x, target, 0, Len(x))

(* insertSorted: append, shift the tail right by one, store v at insertAt. *)
insertSorted(working, v) ==
    LET insertAt == BinarySearchFunc(working, v)
    IN  SubSeq(working, 1, insertAt) \o <<v>>
          \o SubSeq(working, insertAt + 1, Len(working))

(* checksumFile: the hex sha256 of the bytes read; distinct byte streams   *)
(* have distinct digests, so the byte stream stands for its digest.        *)
checksumFile(fsys, path) == fsys[path].content

(* Variant: a filter that also drops files of exactly the minimum size. *)
TooSmallStrictlyOrEqual(info, min) == info.size <= min

(* The walker's size filter: TRUE when the entry is skipped. *)
TooSmall(info, min) == info.size < min

(* The loop over hashes[cs] that looks for a member with info's identity. *)
AlreadySeen(info, fileset) ==
    \E k \in 1..Len(fileset) : SameFile(info, fileset[k])

Keys(h) == { cs \in DOMAIN h : h[cs] # <<>> }

----------------------------------------------------------------------------
(* Variant: a callback that skips what it cannot stat or read. *)
WalkFuncSkipUnreadable(h, fsys, path, info, min, walkErr, readErr) ==
    IF walkErr \/ info.kind = "dir" \/ TooSmall(info, min)
    THEN [err |-> NoErr, hashes |-> h, calls |-> <<>>]
    ELSE IF readErr
    THEN [err |-> NoErr, hashes |-> h,
          calls |-> <<Event("checksumFile", path, 0, "IOError", 0)>>]
    ELSE LET cs == checksumFile(fsys, path)
         IN  [err |-> NoErr,
              hashes |-> IF AlreadySeen(info, h[cs]) THEN h
                         ELSE [h EXCEPT ![cs] =
                                 insertSorted(@, fullFileInfo(path, info))],
              calls |-> <<Event("checksumFile", path, 0, "ok", 0)>>]

(* findDuplicateFiles. WalkFunc is the callback: what it returns, the map  *)
(* it leaves and the calls it made, for one entry. walkErr: filepath.Walk  *)
(* hands the callback an error (Lstat or ReadDir failed); readErr: os.Open *)
(* or io.Copy fails in checksumFile.                                       *)

WalkFunc(h, fsys, path, info, min, walkErr, readErr) ==
    IF walkErr
    THEN [err |-> "WalkError", hashes |-> h,
          calls |-> <<Event("Walk", path, 0, "error", 0)>>]
    ELSE IF info.kind = "dir"
    THEN [err |-> NoErr, hashes |-> h, calls |-> <<>>]
    ELSE IF TooSmall(info, min)
    THEN [err |-> NoErr, hashes |-> h, calls |-> <<>>]
    ELSE IF readErr
    THEN [err |-> "IOError", hashes |-> h,
          calls |-> <<Event("checksumFile", path, 0, "IOError", 0)>>]
    ELSE LET cs == checksumFile(fsys, path)
         IN  [err |-> NoErr,
              hashes |-> IF AlreadySeen(info, h[cs]) THEN h
                         ELSE [h EXCEPT ![cs] =
                                 insertSorted(@, fullFileInfo(path, info))],
              calls |-> <<Event("checksumFile", path, 0, "ok", 0)>>]

(* filepath.Walk: the root first, then the entries in lexical order, one   *)
(* call of the callback each. An error from the callback ends the walk;    *)
(* findDuplicateFiles returns it and so does the command.                  *)
WalkStep(walkErr, readErr) ==
    /\ pc = "walk"
    /\ walkIdx <= NumPaths
    /\ LET path == walkIdx
           info == IF path = Root THEN RootInfo ELSE fs[path]
           r == WalkFunc(hashes, fs, path, info, minSizeBytes, walkErr,
                         readErr)
       IN  /\ hashes' = r.hashes
           /\ trace' = trace \o r.calls
           /\ IF r.err # NoErr
              THEN /\ pc' = "failed"
                   /\ err' = r.err
                   /\ UNCHANGED walkIdx
              ELSE /\ walkIdx' = walkIdx + 1
                   /\ UNCHANGED <<pc, err>>
    /\ UNCHANGED <<cmd, real, minSizeBytes, tree, fs, todo, cur, idx, total,
                   nextId, args, fmtIn, fmtOut>>

(* filepath.Walk has no entry left: findDuplicateFiles returns the map and *)
(* the command reaches its range loop.                                     *)
WalkReturn ==
    /\ pc = "walk"
    /\ walkIdx = NumPaths + 1
    /\ pc' = "plan"
    /\ todo' = Keys(hashes)
    /\ UNCHANGED <<cmd, real, minSizeBytes, tree, fs, walkIdx, hashes, cur,
                   idx, total, trace, err, nextId, args, fmtIn, fmtOut>>

----------------------------------------------------------------------------
(* cloneFile and the system calls it makes. *)

(* fileExists: os.Stat succeeds. *)
fileExists(fsys, path) == fsys[path] # NoFile

(* Errors of unix.Clonefile that cloneFile swallows. *)
Tolerated == {"ENOTSUP", "EXDEV"}

(* What the clone primitive may answer when source exists and target does  *)
(* not: success, or one of the failures the platform can produce.          *)
PrimitiveResults == {"ok", "ENOTSUP", "EXDEV", "EIO"}

(* What the environment decides in one call of cloneFile. When           *)
(* filepath.Abs fails nothing else is asked.                               *)
CloneInputs ==
    { in \in [absOk : BOOLEAN, rmOk : BOOLEAN, prim : PrimitiveResults] :
        ~in.absOk => (in.rmOk /\ in.prim = "ok") }

(* unix.Clonefile(source, target, CLONE_NOFOLLOW): a missing source and an *)
(* existing target are refused by the kernel before any cloning.           *)
Clonefile(fsys, source, target, prim) ==
    IF ~fileExists(fsys, source) THEN "ENOENT"
    ELSE IF fileExists(fsys, target) THEN "EEXIST"
    ELSE prim

(* Variant: every failure of the clone primitive is returned. *)
cloneFileAllFatal(fsys, source, target, absOk, rmOk, prim, id) ==
    IF ~absOk THEN [fs |-> fsys, err |-> "AbsError", calls |-> <<>>]
    ELSE IF ~fileExists(fsys, source)
    THEN [fs |-> fsys, err |-> "SourceNotFound", calls |-> <<>>]
    ELSE LET targetExists == fileExists(fsys, target)
             fs1 == IF targetExists /\ rmOk
                    THEN [fsys EXCEPT ![target] = NoFile] ELSE fsys
             rm == IF targetExists
                   THEN <<Event("Remove", 0, target,
                                IF rmOk THEN "ok" ELSE "fail", 0)>>
                   ELSE <<>>
             errno == Clonefile(fs1, source, target, prim)
             fs2 == IF errno = "ok"
                    THEN [fs1 EXCEPT ![target] = [fs1[source] EXCEPT !.id = id]]
                    ELSE fs1
         IN  [fs |-> fs2,
              err |-> IF errno # "ok" THEN "CloneError" ELSE NoErr,
              calls |-> rm \o <<Event("Clonefile", source, target, errno, 0)>>]

(* cloneFile(source, target). absOk: filepath.Abs succeeds on both paths;  *)
(* rmOk: os.Remove succeeds (its error is discarded); prim: the answer of  *)
(* the clone primitive; id: the identity of the file a clone creates.      *)
(* Returns the new file system, the error returned and the calls made.     *)
cloneFile(fsys, source, target, absOk, rmOk, prim, id) ==
    IF ~absOk THEN [fs |-> fsys, err |-> "AbsError", calls |-> <<>>]
    ELSE IF ~fileExists(fsys, source)
    THEN [fs |-> fsys, err |-> "SourceNotFound", calls |-> <<>>]
    ELSE LET targetExists == fileExists(fsys, target)
             fs1 == IF targetExists /\ rmOk
                    THEN [fsys EXCEPT ![target] = NoFile] ELSE fsys
             rm == IF targetExists
                   THEN <<Event("Remove", 0, target,
                                IF rmOk THEN "ok" ELSE "fail", 0)>>
                   ELSE <<>>
             errno == Clonefile(fs1, source, target, prim)
             fs2 == IF errno = "ok"
                    THEN [fs1 EXCEPT ![target] = [fs1[source] EXCEPT !.id = id]]
                    ELSE fs1
         IN  [fs |-> fs2,
              err |-> IF errno # "ok" /\ errno \notin Tolerated
                      THEN "CloneError" ELSE NoErr,
              calls |-> rm \o <<Event("Clonefile", source, target, errno, 0)>>]

----------------------------------------------------------------------------
(* Dedup Planner/Executor: the loops of find and clone-duplicates.         *)

(* `for _, fileset := range hashes`: the map yields its keys in any order; *)
(* a fileset with fewer than two members is skipped.                       *)
RangeNext(name) ==
    /\ cmd = name
    /\ pc = "plan"
    /\ cur = NoKey
    /\ \E cs \in todo :
         /\ todo' = todo \ {cs}
         /\ IF Len(hashes[cs]) < 2
            THEN UNCHANGED <<cur, idx>>
            ELSE cur' = cs /\ idx' = 2
    /\ UNCHANGED <<cmd, real, minSizeBytes, tree, fs, pc, walkIdx, hashes,
                   total, trace, err, nextId, args, fmtIn, fmtOut>>

(* srcFile := fileset[0] *)
SrcFile(fileset) == fileset[1]

(* The inner loop leaves the fileset after its last member. *)
Advance ==
    IF idx = Len(hashes[cur])
    THEN cur' = NoKey /\ idx' = 0
    ELSE idx' = idx + 1 /\ UNCHANGED cur

FindRange == RangeNext("find")

CloneRange == RangeNext("clone-duplicates")

----------------------------------------------------------------------------
(* pkg/filesize. A uint64 byte count is the pair (hi, lo) that stands for  *)
(* hi * 2^20 + lo, with 0 <= lo < 2^20.                                    *)

Word == 2^20
U64(hi, lo) == [hi |-> hi, lo |-> lo]
Zero == U64(0, 0)
ToU64(n) == U64(n \div Word, n % Word)

Terabyte == U64(2^20, 0)
Gigabyte == U64(2^10, 0)
Megabyte == U64(1, 0)
Kilobyte == U64(0, 2^10)

Gt(a, b) == a.hi > b.hi \/ (a.hi = b.hi /\ a.lo > b.lo)
Lt(a, b) == Gt(b, a)

(* a / u and v * u for a unit u (a power of two), a - b for a >= b. *)
Quot(a, u) ==
    IF u.hi = 0 THEN a.hi * (Word \div u.lo) + a.lo \div u.lo
    ELSE a.hi \div u.hi
Times(v, u) ==
    IF u.hi = 0 THEN U64((v * u.lo) \div Word, (v * u.lo) % Word)
    ELSE U64(v * u.hi, 0)
Minus(a, b) ==
    IF a.lo >= b.lo THEN U64(a.hi - b.hi, a.lo - b.lo)
    ELSE U64(a.hi - b.hi - 1, a.lo + Word - b.lo)

(* strconv.FormatUint(value, 10) + suffix: one component of the output.    *)
(* Numerals and suffixes alternate, so the string and the sequence of      *)
(* components determine each other.                                        *)
Component(value, suffix) == [n |-> value, unit |-> suffix]

(* The branch of Format's loop body that remainder selects. *)
UnitOf(remainder) ==
    IF Gt(remainder, Terabyte) THEN [unit |-> Terabyte, suffix |-> "tb"]
    ELSE IF Gt(remainder, Gigabyte) THEN [unit |-> Gigabyte, suffix |-> "gb"]
    ELSE IF Gt(remainder, Megabyte) THEN [unit |-> Megabyte, suffix |-> "mb"]
    ELSE [unit |-> Kilobyte, suffix |-> "kb"]

(* `for remainder > uint64(Kilobyte)` and the return after it. *)
RECURSIVE FormatLoop(_, _)
FormatLoop(remainder, output) ==
    IF Gt(remainder, Kilobyte)
    THEN LET u == UnitOf(remainder)
             value == Quot(remainder, u.unit)
         IN  FormatLoop(Minus(remainder, Times(value, u.unit)),
                        Append(output, Component(value, u.suffix)))
    ELSE IF Gt(remainder, Zero)
    THEN Append(output, Component(remainder.hi * Word + remainder.lo, "b"))
    ELSE output

Format(fileSizeInBytes) ==
    IF Lt(fileSizeInBytes, Kilobyte)
    THEN <<Component(fileSizeInBytes.lo, "b")>>
    ELSE FormatLoop(fileSizeInBytes, <<>>)

----------------------------------------------------------------------------
(* The inner loops: one target per step. *)

(* Variant: the inner loop starts at the source. *)
TargetsAll(fileset) == fileset

(* The members the inner loop ranges over: fileset[1:]. *)
Targets(fileset) == Tail(fileset)

(* find: add the target's size, print the duplicate line. *)
FindTarget ==
    /\ cmd = "find"
    /\ pc = "plan"
    /\ cur # NoKey
    /\ LET fileset == hashes[cur]
           srcFile == SrcFile(fileset)
           fileInfo == Targets(fileset)[idx - 1]
       IN  /\ total' = total + Size(fileInfo)
           /\ trace' = Append(trace,
                 [Event("Duplicate", srcFile.Path, fileInfo.Path, "",
                        Size(fileInfo))
                    EXCEPT !.text = Format(ToU64(Size(fileInfo)))])
    /\ Advance
    /\ UNCHANGED <<cmd, real, minSizeBytes, tree, fs, pc, walkIdx, hashes,
                   todo, err, nextId, args, fmtIn, fmtOut>>

(* Variant: the loop body without the test of --real. *)
cloneOrReportAlways(isReal, fsys, source, target, absOk, rmOk, prim, id) ==
    LET r == cloneFile(fsys, source, target, absOk, rmOk, prim, id)
    IN  IF r.err # NoErr THEN r
        ELSE [r EXCEPT !.calls = @ \o <<Event("Cloned", source, target, "", 0)>>]

(* The body of clone-duplicates' inner loop after the size is added:      *)
(* cloneFile and the "Cloned" line with --real, else the "[DRY-RUN]" line.  *)
cloneOrReport(isReal, fsys, source, target, absOk, rmOk, prim, id) ==
    IF isReal
    THEN LET r == cloneFile(fsys, source, target, absOk, rmOk, prim, id)
         IN  IF r.err # NoErr THEN r
             ELSE [r EXCEPT
                     !.calls = @ \o <<Event("Cloned", source, target, "", 0)>>]
    ELSE [fs |-> fsys, err |-> NoErr,
          calls |-> <<Event("DryRun", source, target, "", 0)>>]

(* clone-duplicates: add the target's size, then clone or report; an error *)
(* of cloneFile is returned at once.                                       *)
CloneTarget(absOk, rmOk, prim) ==
    /\ cmd = "clone-duplicates"
    /\ pc = "plan"
    /\ cur # NoKey
    /\ LET fileset == hashes[cur]
           srcFile == SrcFile(fileset)
           fileInfo == Targets(fileset)[idx - 1]
           r == cloneOrReport(real, fs, srcFile.Path, fileInfo.Path, absOk,
                              rmOk, prim, nextId)
       IN  /\ total' = total + Size(fileInfo)
           /\ fs' = r.fs
           /\ nextId' = IF r.fs[fileInfo.Path].id = nextId
                        THEN nextId + 1 ELSE nextId
           /\ trace' = trace \o r.calls
           /\ IF r.err # NoErr
              THEN /\ pc' = "failed"
                   /\ err' = r.err
                   /\ UNCHANGED <<cur, idx>>
              ELSE /\ Advance
                   /\ UNCHANGED <<pc, err>>
    /\ UNCHANGED <<cmd, real, minSizeBytes, tree, walkIdx, hashes, todo,
                   args, fmtIn, fmtOut>>

(* After the last fileset: print the total (through FormatFraction, whose  *)
(* argument is kept here) and return nil.                                  *)
PrintTotal(name) ==
    /\ cmd = name
    /\ pc = "plan"
    /\ cur = NoKey
    /\ todo = {}
    /\ trace' = Append(trace, Event("Total", 0, 0, "", total))
    /\ pc' = "done"
    /\ UNCHANGED <<cmd, real, minSizeBytes, tree, fs, walkIdx, hashes, todo,
                   cur, idx, total, err, nextId, args, fmtIn, fmtOut>>

FindTotal == PrintTotal("find")

CloneTotal == PrintTotal("clone-duplicates")

----------------------------------------------------------------------------
(* The specification of find and clone-duplicates. *)

Init ==
    /\ cmd \in {"find", "clone-duplicates"}
    /\ real \in BOOLEAN
    /\ cmd = "find" => real = FALSE
    /\ minSizeBytes \in MinSizes
    /\ tree \in Trees
    /\ fs = tree
    /\ pc = "walk"
    /\ walkIdx = 0
    /\ hashes = [cs \in Contents |-> <<>>]
    /\ todo = {}
    /\ cur = NoKey
    /\ idx = 0
    /\ total = 0
    /\ trace = <<>>
    /\ err = NoErr
    /\ nextId = NumPaths + 1
    /\ args = <<>>
    /\ fmtIn = Zero
    /\ fmtOut = <<>>

Next ==
    \/ \E walkErr, readErr \in BOOLEAN : WalkStep(walkErr, readErr)
    \/ WalkReturn
    \/ FindRange
    \/ FindTarget
    \/ FindTotal
    \/ CloneRange
    \/ \E in \in CloneInputs : CloneTarget(in.absOk, in.rmOk, in.prim)
    \/ CloneTotal

Spec == Init /\ [][Next]_vars

----------------------------------------------------------------------------
(* Properties of find / clone-duplicates (checked under Spec).             *)

Groups == { hashes[cs] : cs \in Keys(hashes) }

IsSortedByModTime(fileset) ==
    \A i, j \in 1..Len(fileset) :
        i < j => ModTime(fileset[i]) <= ModTime(fileset[j])

DistinctIdentities(fileset) ==
    \A i, j \in 1..Len(fileset) :
        i # j => Identity(fileset[i]) # Identity(fileset[j])

MemberPaths(fileset) == { fileset[k].Path : k \in 1..Len(fileset) }

(* Lines and calls of the planner that name a source and a target. *)
PlanOps == {"Duplicate", "DryRun", "Cloned", "Clonefile"}
ReportOps == {"Duplicate", "DryRun", "Cloned"}

Indices(ops) == { i \in 1..Len(trace) : trace[i].op \in ops }

Fingerprinted(p) ==
    \E i \in Indices({"checksumFile"}) : trace[i].src = p

InGroup(p) == \E g \in Groups : p \in MemberPaths(g)

(* C1: after any sequence of insertions every group is in non-decreasing   *)
(* modification-time order and holds no two members of one identity (so a  *)
(* record whose identity is already present was not inserted).             *)
C1_GroupingInvariant ==
    \A g \in Groups : IsSortedByModTime(g) /\ DistinctIdentities(g)

(* The half of C1 the code keeps: groups stay sorted. *)
C1_GroupsSorted == \A g \in Groups : IsSortedByModTime(g)

(* Files of one content in the directory the command was given. *)
SameContent(c) ==
    { p \in Paths : tree[p].kind = "regular" /\ tree[p].content = c }

PairwiseDistinct(S) == \A p, q \in S : p # q => tree[p].id # tree[q].id

TargetLines(S) == { i \in Indices(ReportOps) : trace[i].dst \in S }

RECURSIVE SumSizes(_)
SumSizes(S) ==
    IF S = {} THEN 0
    ELSE LET i == CHOOSE x \in S : TRUE
         IN  tree[trace[i].dst].size + SumSizes(S \ {i})

PrintedTotal == trace[Len(trace)].n

(* C2: N files of identical content, pairwise distinct identities and size *)
(* >= min_size make a group of exactly N members; when the run has printed *)
(* its total, exactly N-1 of them were processed as targets, each once,    *)
(* the group's first member never; and the total printed is the sum of the *)
(* sizes of the targets processed, with and without --real.                *)
C2_DedupCorrectness ==
    \A c \in Contents :
        LET S == SameContent(c)
            N == Cardinality(S)
        IN  (N >= 1 /\ PairwiseDistinct(S) /\ SizeOf(c) >= minSizeBytes) =>
              /\ pc \in {"plan", "done"} =>
                    /\ Len(hashes[c]) = N
                    /\ MemberPaths(hashes[c]) = S
              /\ pc = "done" =>
                    /\ Cardinality(TargetLines(S)) = N - 1
                    /\ \A p \in S \ {SrcFile(hashes[c]).Path} :
                          Cardinality(TargetLines({p})) = 1
                    /\ TargetLines({SrcFile(hashes[c]).Path}) = {}
                    /\ (S = Paths =>
                          /\ PrintedTotal = SumSizes(TargetLines(S))
                          /\ PrintedTotal = (N - 1) * SizeOf(c))

C2_Witness ==
    /\ pc = "done"
    /\ real
    /\ \E c \in Contents :
          /\ SameContent(c) = Paths
          /\ PairwiseDistinct(Paths)
          /\ Len(hashes[c]) = NumPaths
          /\ PrintedTotal = (NumPaths - 1) * SizeOf(c)
          /\ \E i \in Indices({"Clonefile"}) : trace[i].res = "ok"

(* C3: find, and clone-duplicates without --real, leave the file system as *)
(* it was and never call Remove or the clone primitive.                    *)
C3_DryRunFrame ==
    (cmd = "find" \/ ~real) =>
        /\ fs = tree
        /\ Indices({"Remove", "Clonefile"}) = {}

C3_Witness ==
    /\ cmd = "clone-duplicates"
    /\ ~real
    /\ pc = "done"
    /\ Cardinality(Indices({"DryRun"})) = NumPaths - 1

(* C4: a regular file of size exactly min_size that the walk hands to the  *)
(* callback is fingerprinted, and inserted once its checksum is computed;  *)
(* a regular file of size min_size - 1 is neither fingerprinted nor        *)
(* inserted.                                                               *)
C4_MinSizeBoundary ==
    \A p \in Paths :
        tree[p].kind = "regular" =>
            /\ (tree[p].size = minSizeBytes /\ walkIdx > p) =>
                    Fingerprinted(p) /\ InGroup(p)
            /\ (tree[p].size = minSizeBytes /\ walkIdx = p /\ err = "IOError")
                    => Fingerprinted(p)
            /\ tree[p].size = minSizeBytes - 1 =>
                    ~Fingerprinted(p) /\ ~InGroup(p)

C4_Witness ==
    /\ pc = "plan"
    /\ \E p, q \in Paths :
          /\ tree[p].kind = "regular" /\ tree[p].size = minSizeBytes
          /\ tree[q].kind = "regular" /\ tree[q].size = minSizeBytes - 1
          /\ InGroup(p) /\ ~InGroup(q)

(* The group that holds path p. *)
GroupOf(p) == CHOOSE g \in Groups : p \in MemberPaths(g)

(* C5: the source of every clone/report is a member of its group no member *)
(* is older than, is never a target, and differs in identity from every    *)
(* target of the group.                                                    *)
C5_CanonicalSource ==
    \A i \in Indices(PlanOps) :
        LET g == GroupOf(trace[i].src)
        IN  /\ trace[i].dst \in MemberPaths(g)
            /\ \A k \in 1..Len(g) : tree[trace[i].src].mtime <= ModTime(g[k])
            /\ \A j \in Indices(PlanOps) : trace[j].dst # trace[i].src
            /\ tree[trace[i].dst].id # tree[trace[i].src].id

(* The part of C5 the code keeps. *)
C5_EarliestSource ==
    \A i \in Indices(PlanOps) :
        LET g == GroupOf(trace[i].src)
        IN  /\ trace[i].dst \in MemberPaths(g)
            /\ \A k \in 1..Len(g) : tree[trace[i].src].mtime <= ModTime(g[k])
            /\ \A j \in Indices(PlanOps) : trace[j].dst # trace[i].src

----------------------------------------------------------------------------
(* SpecFormat: filesize.Format applied to one byte count.                  *)

MaxTb == 2                       \* inputs reach MaxTb terabytes and more
Digits == {0, 1, 5, 10, 1023}    \* quotients tried at every smaller unit

FormatInputs ==
    { U64(t * 2^20 + g * 2^10 + m, k * 2^10 + b) :
        t \in 0..MaxTb, g \in Digits, m \in Digits, k \in Digits, b \in Digits }

NoTree == [p \in Paths |-> NoFile]

InitFormat ==
    /\ cmd = "format"
    /\ real = FALSE
    /\ minSizeBytes = 0
    /\ tree = NoTree
    /\ fs = NoTree
    /\ pc = "start"
    /\ walkIdx = 0
    /\ hashes = [cs \in Contents |-> <<>>]
    /\ todo = {}
    /\ cur = NoKey
    /\ idx = 0
    /\ total = 0
    /\ trace = <<>>
    /\ err = NoErr
    /\ nextId = NumPaths + 1
    /\ args = <<>>
    /\ fmtIn \in FormatInputs
    /\ fmtOut = <<>>

FormatCall ==
    /\ cmd = "format"
    /\ pc = "start"
    /\ fmtOut' = Format(fmtIn)
    /\ pc' = "done"
    /\ UNCHANGED <<cmd, real, minSizeBytes, tree, fs, walkIdx, hashes, todo,
                   cur, idx, total, trace, err, nextId, args, fmtIn>>

NextFormat == FormatCall

SpecFormat == InitFormat /\ [][NextFormat]_vars

(* The greedy decomposition of n over tb, gb, mb, kb, b: each unit's       *)
(* number is the quotient of what the larger units left over; units with   *)
(* quotient zero are left out; zero alone is "0b".                         *)
NonZero(c) == c.n # 0

GreedyFormat(n) ==
    IF n = Zero THEN <<Component(0, "b")>>
    ELSE SelectSeq(<<Component(n.hi \div 2^20, "tb"),
                     Component((n.hi % 2^20) \div 2^10, "gb"),
                     Component(n.hi % 2^10, "mb"),
                     Component(n.lo \div 2^10, "kb"),
                     Component(n.lo % 2^10, "b")>>, NonZero)

(* C6: Format(n) is the greedy decomposition of n, so that every gb, mb,   *)
(* kb and b component is below 1024; in particular Format(5) = "5b",       *)
(* Format(5*2^20) = "5mb" and Format(5*2^20 + 10*2^10) = "5mb10kb".        *)
C6_FormatGreedy ==
    /\ pc = "done" => fmtOut = GreedyFormat(fmtIn)
    /\ Format(ToU64(5)) = <<Component(5, "b")>>
    /\ Format(ToU64(5 * 2^20)) = <<Component(5, "mb")>>
    /\ Format(ToU64(5 * 2^20 + 10 * 2^10)) =
          <<Component(5, "mb"), Component(10, "kb")>>

(* What Format does keep: the three cases of Test_Format, and agreement    *)
(* with the greedy decomposition whenever no unit boundary is hit exactly, *)
(* that is when what is left over at each step is not exactly one unit.    *)
C6_TestCases ==
    /\ Format(ToU64(5)) = <<Component(5, "b")>>
    /\ Format(ToU64(5 * 2^20)) = <<Component(5, "mb")>>
    /\ Format(ToU64(5 * 2^20 + 10 * 2^10)) =
          <<Component(5, "mb"), Component(10, "kb")>>

----------------------------------------------------------------------------
(* same-file and clone-file work on paths the user names; none of them     *)
(* reads a modification time. Any of the paths may be missing.             *)

UserTrees ==
    { [p \in Paths |-> IF p \in gone THEN NoFile ELSE t[p]] :
        t \in { u \in Trees : \A p \in Paths : u[p].mtime = 1 },
        gone \in SUBSET Paths }

InitUser(name, argv) ==
    /\ cmd = name
    /\ real = FALSE
    /\ minSizeBytes = 0
    /\ tree \in UserTrees
    /\ fs = tree
    /\ pc = "start"
    /\ walkIdx = 0
    /\ hashes = [cs \in Contents |-> <<>>]
    /\ todo = {}
    /\ cur = NoKey
    /\ idx = 0
    /\ total = 0
    /\ trace = <<>>
    /\ err = NoErr
    /\ nextId = NumPaths + 1
    /\ args \in argv
    /\ fmtIn = Zero
    /\ fmtOut = <<>>

(* os.Stat: the *os.fileStat of what the path names, or an error when the  *)
(* path is missing or statErr says the call fails for another reason.      *)
Stat(fsys, path, statErr) ==
    IF statErr \/ fsys[path] = NoFile THEN NoFile ELSE fsys[path]

StatEvent(path, info) ==
    Event("Stat", path, 0, IF info = NoFile THEN "error" ELSE "ok", 0)

(* same-file: zero to three positional arguments. *)
SameFileArgs == UNION { [1..n -> Paths] : n \in 0..3 }

SameFileCmd(statErr1, statErr2) ==
    /\ cmd = "same-file"
    /\ pc = "start"
    /\ IF Len(args) = 0
       THEN pc' = "failed" /\ err' = "MustProvide" /\ UNCHANGED trace
       ELSE IF Len(args) # 2
       THEN pc' = "failed" /\ err' = "MustProvideExactly" /\ UNCHANGED trace
       ELSE LET sourceFile == args[1]
                destFile == args[2]
                sourceInfo == Stat(fs, sourceFile, statErr1)
                destInfo == Stat(fs, destFile, statErr2)
            IN  IF sourceInfo = NoFile
                THEN /\ trace' = <<StatEvent(sourceFile, sourceInfo),
                                   Event("SourceMissing", 0, 0, "", 0)>>
                     /\ pc' = "done" /\ UNCHANGED err
                ELSE IF destInfo = NoFile
                THEN /\ trace' = <<StatEvent(sourceFile, sourceInfo),
                                   StatEvent(destFile, destInfo),
                                   Event("DestMissing", 0, 0, "", 0)>>
                     /\ pc' = "done" /\ UNCHANGED err
                ELSE IF SameFile(sourceInfo, destInfo)
                THEN /\ trace' = <<StatEvent(sourceFile, sourceInfo),
                                   StatEvent(destFile, destInfo),
                                   Event("Same", 0, 0, "", 0)>>
                     /\ pc' = "done" /\ UNCHANGED err
                ELSE /\ trace' = <<StatEvent(sourceFile, sourceInfo),
                                   StatEvent(destFile, destInfo)>>
                     /\ pc' = "failed" /\ err' = "NotSame"
    /\ UNCHANGED <<cmd, real, minSizeBytes, tree, fs, walkIdx, hashes, todo,
                   cur, idx, total, nextId, args, fmtIn, fmtOut>>

InitSameFile == InitUser("same-file", SameFileArgs)

NextSameFile == \E statErr1, statErr2 \in BOOLEAN : SameFileCmd(statErr1, statErr2)

SpecSameFile == InitSameFile /\ [][NextSameFile]_vars

(* clone-file: no argument, or a source and a destination. *)
CloneFileArgs == [1..0 -> Paths] \cup [1..2 -> Paths]

CloneFileCmd(absOk, rmOk, prim) ==
    /\ cmd = "clone-file"
    /\ pc = "start"
    /\ IF Len(args) = 0
       THEN /\ pc' = "failed" /\ err' = "MustProvide"
            /\ UNCHANGED <<fs, nextId, trace>>
       ELSE LET sourceFile == args[1]
                destFile == args[2]
                r == cloneFile(fs, sourceFile, destFile, absOk, rmOk, prim,
                               nextId)
                cloning == Event("Cloning", sourceFile, destFile, "", 0)
            IN  /\ fs' = r.fs
                /\ nextId' = IF r.fs[destFile].id = nextId
                             THEN nextId + 1 ELSE nextId
                /\ IF r.err # NoErr
                   THEN /\ pc' = "failed" /\ err' = r.err
                        /\ trace' = <<cloning>> \o r.calls
                   ELSE /\ pc' = "done" /\ UNCHANGED err
                        /\ trace' = <<cloning>> \o r.calls \o
                             <<Event("CloningDone", sourceFile, destFile,
                                     "", 0)>>
    /\ UNCHANGED <<cmd, real, minSizeBytes, tree, walkIdx, hashes, todo,
                   cur, idx, total, args, fmtIn, fmtOut>>

InitCloneFile == InitUser("clone-file", CloneFileArgs)

NextCloneFile == \E in \in CloneInputs : CloneFileCmd(in.absOk, in.rmOk, in.prim)

(* Every caller of cloneFile: clone-duplicates and clone-file. *)
InitClone == Init \/ InitCloneFile

NextClone == Next \/ NextCloneFile

SpecClone == InitClone /\ [][NextClone]_vars

----------------------------------------------------------------------------
(* Properties of same-file (checked under SpecSameFile).                   *)

Resolved(k) == Len(trace) >= k /\ trace[k].op = "Stat" /\ trace[k].res = "ok"
Printed(op) == trace # <<>> /\ trace[Len(trace)].op = op
StatCalls == { i \in 1..Len(trace) : trace[i].op = "Stat" }

(* C7: with two paths A and B same-file ends in exactly one of four ways,  *)
(* decided in this order: A unresolved -> "source missing", success; B     *)
(* unresolved -> "target missing", success; same identity -> "same",       *)
(* success; else an error. Only "different" is an error, and it is the     *)
(* identities that are compared. Any other number of arguments is an error *)
(* and no path is resolved.                                                *)
C7_SameFileOutcomes ==
    pc # "start" =>
        IF Len(args) # 2
        THEN pc = "failed" /\ err # NoErr /\ err # "NotSame" /\ StatCalls = {}
        ELSE LET A == args[1]
                 B == args[2]
             IN  /\ fs = tree
                 /\ trace[1].op = "Stat" /\ trace[1].src = A
                 /\ (fs[A] = NoFile => ~Resolved(1))
                 /\ IF ~Resolved(1)
                    THEN /\ pc = "done" /\ err = NoErr
                         /\ Printed("SourceMissing")
                         /\ StatCalls = {1}
                    ELSE /\ trace[2].op = "Stat" /\ trace[2].src = B
                         /\ (fs[B] = NoFile => ~Resolved(2))
                         /\ IF ~Resolved(2)
                            THEN pc = "done" /\ err = NoErr
                                 /\ Printed("DestMissing")
                            ELSE IF fs[A].id = fs[B].id
                            THEN pc = "done" /\ err = NoErr /\ Printed("Same")
                            ELSE pc = "failed" /\ err = "NotSame"
                                 /\ Len(trace) = 2

(* Two different paths with the same bytes and different identities are    *)
(* reported different.                                                     *)
C7_Witness ==
    /\ pc = "failed"
    /\ err = "NotSame"
    /\ Len(args) = 2
    /\ args[1] # args[2]
    /\ fs[args[1]].content = fs[args[2]].content
    /\ fs[args[1]].id # fs[args[2]].id

----------------------------------------------------------------------------
(* Properties of cloning. *)

IsLast(i) == i = Len(trace)

(* C8: with --real a clone that fails with ENOTSUP or EXDEV counts as      *)
(* success: the "Cloned" line follows and the run goes on. Any other       *)
(* failure ends the run with that error at once: nothing is called or      *)
(* printed after it, in particular no later clone and no total.            *)
C8_CloneErrors ==
    /\ \A i \in Indices({"Clonefile"}) :
          IF trace[i].res \in Tolerated \cup {"ok"}
          THEN /\ i < Len(trace)
               /\ trace[i + 1].op = "Cloned"
               /\ trace[i + 1].dst = trace[i].dst
          ELSE /\ IsLast(i)
               /\ pc = "failed"
               /\ err = "CloneError"
    /\ (cmd = "clone-duplicates" /\ pc = "failed") => Indices({"Total"}) = {}
    /\ (cmd = "clone-duplicates" /\ err = "CloneError") =>
          /\ pc = "failed"
          /\ trace[Len(trace)].op = "Clonefile"
          /\ trace[Len(trace)].res \notin Tolerated \cup {"ok"}
    /\ (cmd = "clone-duplicates" /\ real /\ pc = "done") =>
          /\ Printed("Total")
          /\ \A g \in Groups : \A k \in 2..Len(g) :
                \E i \in Indices({"Clonefile"}) : trace[i].dst = g[k].Path

(* A tolerated failure is followed by the clone of the next target. *)
C8_Witness ==
    /\ pc = "done"
    /\ \E i, j \in Indices({"Clonefile"}) :
          /\ i < j
          /\ trace[i].res = "ENOTSUP"
          /\ trace[j].res = "EXDEV"

(* A fatal failure on the first target of a group of three: the third      *)
(* member is never cloned.                                                 *)
C8_WitnessFatal ==
    /\ pc = "failed"
    /\ err = "CloneError"
    /\ Cardinality(Indices({"Clonefile"})) = 1
    /\ \E g \in Groups : Len(g) = 3

(* The parts of C9, for the call of cloneFile that made trace[i]. *)
RemovedFirst(i) ==
    tree[trace[i].dst] # NoFile =>
        /\ i > 1
        /\ trace[i - 1].op = "Remove"
        /\ trace[i - 1].dst = trace[i].dst

LeftMissing(i) ==
    (tree[trace[i].dst] # NoFile /\ trace[i].res \in Tolerated) =>
        /\ fs[trace[i].dst] = NoFile
        /\ i < Len(trace)
        /\ trace[i + 1].op \in {"Cloned", "CloningDone"}

OnlyTargetsRemoved ==
    \A p \in Paths :
        (tree[p] # NoFile /\ fs[p] = NoFile) =>
            \E i \in Indices({"Remove"}) : trace[i].dst = p /\ trace[i].res = "ok"

(* C9: an existing target is removed before the primitive is called and   *)
(* is not restored: after ENOTSUP or EXDEV cloneFile returns success and   *)
(* the target path stays absent, so a --real run can end with success and  *)
(* fewer paths; and the source path of a call is never removed.            *)
C9_RemoveThenClone ==
    /\ \A i \in Indices({"Clonefile"}) :
          /\ RemovedFirst(i)
          /\ LeftMissing(i)
          /\ fs[trace[i].src] # NoFile
    /\ OnlyTargetsRemoved

(* What cloneFile keeps of C9: all of it when source and target are       *)
(* different paths; when they are one path the call removes it (unless     *)
(* Remove fails).                                                          *)
C9_RemoveThenCloneDistinct ==
    /\ \A i \in Indices({"Clonefile"}) :
          /\ RemovedFirst(i)
          /\ LeftMissing(i)
          /\ trace[i].src # trace[i].dst =>
                fs[trace[i].src] # NoFile /\ fs[trace[i].src] = tree[trace[i].src]
          /\ trace[i].src = trace[i].dst =>
                fs[trace[i].src] = NoFile \/ trace[i - 1].res = "fail"
    /\ OnlyTargetsRemoved

(* A clone-duplicates --real run that ends with success and one path less. *)
C9_Witness ==
    /\ cmd = "clone-duplicates"
    /\ real
    /\ pc = "done"
    /\ err = NoErr
    /\ \E p \in Paths : tree[p] # NoFile /\ fs[p] = NoFile

----------------------------------------------------------------------------
PlannerOps == PlanOps \cup {"Remove", "Total"}

(* C10: every fingerprinting comes before the first clone or report line;  *)
(* the planner starts only after the walk has visited every entry without  *)
(* error. When the walk or a checksum fails, the command returns that      *)
(* error and nothing is reported, cloned or totalled for the groups        *)
(* collected so far.                                                       *)

C10_WalkBeforePlan ==
    /\ \A i \in Indices({"checksumFile", "Walk"}) :
          \A j \in Indices(PlannerOps) : i < j
    /\ (pc \in {"plan", "done"} \/ Indices(PlannerOps) # {}) =>
          /\ walkIdx = NumPaths + 1
          /\ \A i \in Indices({"checksumFile", "Walk"}) : trace[i].res = "ok"
    /\ \A i \in Indices({"checksumFile", "Walk"}) :
          trace[i].res # "ok" =>
              /\ IsLast(i)
              /\ pc = "failed"
              /\ err = (IF trace[i].op = "Walk" THEN "WalkError" ELSE "IOError")
    /\ err \in {"WalkError", "IOError"} =>
          /\ pc = "failed"
          /\ Indices(PlannerOps) = {}
          /\ fs = tree

(* A checksum fails after a group of two has been collected. *)
C10_Witness ==
    /\ pc = "failed"
    /\ err = "IOError"
    /\ real
    /\ \E g \in Groups : Len(g) >= 2

----------------------------------------------------------------------------
(* Properties of a failed removal of the target. *)

FailedRemoves == { i \in Indices({"Remove"}) : trace[i].res = "fail" }

(* C11: a failure to remove an existing target is fatal: cloneFile returns *)
(* an error, the clone primitive is not invoked for that target, and the   *)
(* run ends there without processing any later target.                     *)
C11_RemoveFailureFatal ==
    \A i \in FailedRemoves :
        /\ pc = "failed"
        /\ err # NoErr
        /\ \A j \in Indices({"Clonefile"}) :
              j > i => trace[j].dst # trace[i].dst
        /\ \A j \in Indices(PlanOps) : j < i

(* What cloneFile does after a failed removal: the error of os.Remove is   *)
(* discarded and the primitive is invoked on the target that is still      *)
(* there; the kernel refuses with EEXIST, which is not tolerated, so the    *)
(* run ends with the primitive's error and the target is left as it was.   *)
C11_RemoveFailureReachesPrimitive ==
    \A i \in FailedRemoves :
        /\ i < Len(trace)
        /\ trace[i + 1].op = "Clonefile"
        /\ trace[i + 1].dst = trace[i].dst
        /\ trace[i + 1].res = "EEXIST"
        /\ IsLast(i + 1)
        /\ pc = "failed"
        /\ err = "CloneError"
        /\ fs[trace[i].dst] = tree[trace[i].dst]

(* A removal fails on the first target of a group of three. *)
C11_Witness ==
    /\ cmd = "clone-duplicates"
    /\ real
    /\ FailedRemoves # {}
    /\ Cardinality(Indices({"Clonefile"})) = 1
    /\ \E g \in Groups : Len(g) = 3

----------------------------------------------------------------------------
(* Properties of the order of ties in a group. The walk visits the paths   *)
(* in increasing order, so of two members the one with the smaller path    *)
(* was inserted earlier.                                                   *)

InsertedBefore(a, b) == a.Path < b.Path

Ties(g) ==
    { <<i, j>> \in (1..Len(g)) \X (1..Len(g)) :
        i < j /\ ModTime(g[i]) = ModTime(g[j]) }

(* C12: insertion is stable: of two members of a group with equal          *)
(* modification times the one inserted earlier stands before the one       *)
(* inserted later; so when several members share the earliest time the     *)
(* first of them the walk visited is members[0], the source.               *)
C12_StableInsertion ==
    \A g \in Groups :
        /\ \A t \in Ties(g) : InsertedBefore(g[t[1]], g[t[2]])
        /\ \A k \in 1..Len(g) :
              ModTime(g[k]) = ModTime(SrcFile(g)) =>
                  SrcFile(g).Path <= g[k].Path

(* What insertSorted does with ties: the binary search ends on the first   *)
(* member that is not older than the new one, so the new member is put     *)
(* before every member of its own time; among equal times the order is the *)
(* reverse of the insertion order and the source is the last one visited.  *)
C12_TiesReversed ==
    \A g \in Groups :
        /\ \A t \in Ties(g) : InsertedBefore(g[t[2]], g[t[1]])
        /\ \A k \in 1..Len(g) :
              ModTime(g[k]) = ModTime(SrcFile(g)) =>
                  SrcFile(g).Path >= g[k].Path

(* Three members of one time have been inserted and reported. *)
C12_Witness ==
    /\ pc = "done"
    /\ \E g \in Groups :
          /\ Len(g) = 3
          /\ \A k \in 1..3 : ModTime(g[k]) = ModTime(g[1])

----------------------------------------------------------------------------
(* Directories that hold entries other than regular files.                 *)

(* What filepath.Walk's Lstat reports for an entry that is neither a       *)
(* regular file nor a directory. IsDir() is false for all of them. A       *)
(* symbolic link has the size of its text; os.Open follows it, so          *)
(* `content` is what is read through the link (a file outside the walked   *)
(* directory). A device has size 0 and yields bytes when read. A link that *)
(* dangles, a socket and a pipe nobody writes to are the readErr case of   *)
(* the callback.                                                           *)
SpecialKinds == {"symlink", "device"}

SpecialStats ==
    { [dyn |-> "*os.fileStat", id |-> i, kind |-> "symlink", mtime |-> 1,
       content |-> c, size |-> SizeOf("b")] : i \in Paths, c \in Contents }
    \cup
    { [dyn |-> "*os.fileStat", id |-> i, kind |-> "device", mtime |-> 1,
       content |-> "a", size |-> 0] : i \in Paths }

SpecialTrees ==
    { t \in [Paths -> Stats \cup SpecialStats] :
        /\ \A p \in Paths : t[p].id <= MaxIdBefore(t, p) + 1
        /\ \A p, q \in Paths : t[p].id = t[q].id => t[p] = t[q]
        /\ \E p \in Paths : t[p].kind \in SpecialKinds }

InitSpecial ==
    /\ cmd \in {"find", "clone-duplicates"}
    /\ real \in BOOLEAN
    /\ cmd = "find" => real = FALSE
    /\ minSizeBytes \in MinSizes
    /\ tree \in SpecialTrees
    /\ fs = tree
    /\ pc = "walk"
    /\ walkIdx = 0
    /\ hashes = [cs \in Contents |-> <<>>]
    /\ todo = {}
    /\ cur = NoKey
    /\ idx = 0
    /\ total = 0
    /\ trace = <<>>
    /\ err = NoErr
    /\ nextId = NumPaths + 1
    /\ args = <<>>
    /\ fmtIn = Zero
    /\ fmtOut = <<>>

SpecSpecial == InitSpecial /\ [][Next]_vars

Special(p) == tree[p].kind \in SpecialKinds

Planned(p) ==
    \E i \in Indices(PlanOps) : trace[i].src = p \/ trace[i].dst = p

(* C13: the walker skips every entry that is not a regular file, whatever  *)
(* the minimum size and the entry's size: a symbolic link, device, socket  *)
(* or pipe is never fingerprinted, never inserted into a group and never a *)
(* clone source or target; a directory is never inserted either.           *)
C13_SkipsNonRegular ==
    /\ \A p \in Paths :
          Special(p) => ~Fingerprinted(p) /\ ~InGroup(p) /\ ~Planned(p)
    /\ ~Fingerprinted(Root) /\ ~InGroup(Root) /\ ~Planned(Root)

(* What the callback does: IsDir() is its only test of the entry's kind.   *)
(* A directory is never fingerprinted or inserted; any other entry is      *)
(* treated as a regular file of the size Lstat reports: below the minimum  *)
(* it is skipped, else it is fingerprinted and, once its checksum is       *)
(* computed, inserted under the content read from it.                      *)
C13_OnlyDirectoriesSkipped ==
    /\ ~Fingerprinted(Root) /\ ~InGroup(Root) /\ ~Planned(Root)
    /\ \A p \in Paths :
          Special(p) =>
              /\ tree[p].size < minSizeBytes =>
                    ~Fingerprinted(p) /\ ~InGroup(p) /\ ~Planned(p)
              /\ (tree[p].size >= minSizeBytes /\ walkIdx > p) =>
                    /\ Fingerprinted(p)
                    /\ p \in MemberPaths(hashes[tree[p].content])

(* A symbolic link is the source of a clone that replaced a regular file.  *)
C13_Witness ==
    /\ cmd = "clone-duplicates"
    /\ real
    /\ pc = "done"
    /\ \E i \in Indices({"Clonefile"}) :
          /\ tree[trace[i].src].kind = "symlink"
          /\ tree[trace[i].dst].kind = "regular"
          /\ trace[i].res = "ok"
          /\ fs[trace[i].dst].kind = "symlink"

====
